---- MODULE Spec2Model ----
(***************************************************************************)
(* skycam_utils.pipeline.process_image as a state machine.                 *)
(*                                                                         *)
(* One invocation of process_image is a process that walks the statements  *)
(* of the function in order; the file system is shared state.  Magnitudes  *)
(* are kept in tenths of a magnitude (3.5 is 35, 2.5 is 25), pixel scales  *)
(* in units of 1/3600 degree, so that all arithmetic is exact.             *)
(***************************************************************************)
EXTENDS Integers, Sequences, FiniteSets, TLC

VARIABLES
    procs,        \* the invocations that take part in this behaviour
    fs,           \* the file system: path -> file (or NoFile)
    fs0,          \* the file system before any invocation started
    pc,           \* per invocation: the statement it is about to execute
    fitsfile,     \* per invocation: the argument (a path)
    im,           \* per invocation: the raw image read from fitsfile
    bkg,          \* per invocation: the background model of make_background
    bkg_image,    \* per invocation: CCDData(bkg.background, unit=adu)
    diff_fp,      \* per invocation: path of the difference file
    solved_fp,    \* per invocation: path the solver returned
    solved,       \* per invocation: the solved image read back
    segm,         \* per invocation: the segmentation image
    catalog,      \* per invocation: the source catalog (a sequence of rows)
    filt,         \* per invocation: im.header['FILTER']
    zp,           \* per invocation: the zeropoint
    sky_mag,      \* per invocation: the sky-brightness image
    result,       \* per invocation: "none", "returned" or the error raised
    trace,        \* per invocation: the calls made so far, in order
    solver_read,  \* per invocation: who wrote the file its solver read
    lost          \* paths where one invocation overwrote another's output

vars == <<procs, fs, fs0, pc, fitsfile, im, bkg, bkg_image, diff_fp, solved_fp,
          solved, segm, catalog, filt, zp, sky_mag, result, trace,
          solver_read, lost>>

----------------------------------------------------------------------------
(* Bounds of the model. *)

\* pixels per image
NPix == 2
\* most sources the segmenter finds, hence most rows of a catalog
MaxRows == 2

(* Program constants. *)

\* the brightness cut, 3.5 mag, in tenths of a magnitude
MagCut == 35
\* -2.5 * log10(...): the factor 2.5 in tenths of a magnitude
Pogson == 25
\* arcsec per degree
ArcsecPerDeg == 3600

Procs == {"A", "B"}

----------------------------------------------------------------------------
(* Paths.  A path is the sequence of the dot-separated parts of its final  *)
(* name: x.bkg.fits is <<"x", "bkg", "fits">>.  Every part is non-empty,   *)
(* so the path has a suffix exactly when it has more than one part.        *)

InputPaths ==
    { <<"x", "fits">>, <<"x", "fit">>, <<"x">>, <<"x", "bkg", "fits">> }

\* appending to the whole name instead: x.fits gives x.fits.bkg.fits
WithSuffixAppend(path, suffix) == path \o suffix
\* pathlib.PurePath.with_suffix, with the new suffix given as its parts:
\* the final suffix, if there is one, is replaced
WithSuffix(path, suffix) ==
    IF Len(path) > 1
    THEN SubSeq(path, 1, Len(path) - 1) \o suffix
    ELSE path \o suffix

BkgSuffix == <<"bkg", "fits">>
SubtSuffix == <<"subt", "fits">>
SkySuffix == <<"sky", "fits">>

\* the path of the file solve_field produces for the file it is given
SolvedPath(path) == WithSuffix(path, <<"new">>)

DerivedPaths(path) ==
    { WithSuffix(path, BkgSuffix), WithSuffix(path, SubtSuffix),
      WithSuffix(path, SkySuffix) }

\* the paths of the file system: the inputs, the names derived from them,
\* the solver's outputs, and the names with the suffix appended
Paths ==
    InputPaths
    \cup UNION { DerivedPaths(i) : i \in InputPaths }
    \cup { SolvedPath(WithSuffix(i, SubtSuffix)) : i \in InputPaths }
    \cup UNION { { WithSuffixAppend(i, s), SolvedPath(WithSuffixAppend(i, s)) } :
                 i \in InputPaths, s \in {BkgSuffix, SubtSuffix, SkySuffix} }

NoPath == <<>>

----------------------------------------------------------------------------
(* Numbers.  A floating-point value is finite (a fraction n/d of tenths of *)
(* a magnitude, d > 0), not-a-number, or plus infinity.                    *)

Fin(n, d) == [t |-> "fin", n |-> n, d |-> d]
NaN == [t |-> "nan", n |-> 0, d |-> 1]
PlusInf == [t |-> "inf", n |-> 0, d |-> 1]

IsFin(v) == v.t = "fin"
IsNaN(v) == v.t = "nan"
\* equality of values as numbers (NaN is equal to nothing)
NumEq(v, w) ==
    \/ IsFin(v) /\ IsFin(w) /\ v.n * w.d = w.n * v.d
    \/ v.t = "inf" /\ w.t = "inf"

RECURSIVE SumSeq(_)
SumSeq(s) == IF s = <<>> THEN 0 ELSE Head(s) + SumSeq(Tail(s))

\* a guarded mean: zero over no elements
MeanZeroIfEmpty(s) == IF Len(s) = 0 THEN Fin(0, 1) ELSE Fin(SumSeq(s), Len(s))
\* numpy mean: the sum over the count, not-a-number over no elements
Mean(s) == IF Len(s) = 0 THEN NaN ELSE Fin(SumSeq(s), Len(s))

\* log10 of num/den for num, den > 0 with num/den a power of ten
RECURSIVE Log10(_, _)
Log10(num, den) ==
    IF num = den THEN 0
    ELSE IF num > den THEN 1 + Log10(num, den * 10)
    ELSE Log10(num * 10, den) - 1

----------------------------------------------------------------------------
(* Images and files.  An image (CCDData) is pixel data, a unit, the FILTER *)
(* header entry ("none" when the header has no such key) and the pixel     *)
(* scales of its WCS (<<>> when it has none).  A file is an image on disk  *)
(* together with who wrote it.                                             *)

Image(data, unit, filter, wcs) ==
    [data |-> data, unit |-> unit, filter |-> filter, wcs |-> wcs]
NoImage == Image(<<>>, "none", "none", <<>>)

File(image, by) ==
    [data |-> image.data, unit |-> image.unit, filter |-> image.filter,
     wcs |-> image.wcs, by |-> by]
NoFile == File(NoImage, "nobody")

Exists(path) == fs[path].by # "nobody"

Filters == {"V", "B"}
\* f'{filt}_mag'
ColName(f) == IF f = "V" THEN "V_mag" ELSE "B_mag"

\* the raw frame of the camera: every pixel 1000 ADU
RawData == [i \in 1..NPix |-> 1000]
\* the background maps make_background can return
BkgVals == {0, 10, 100}
BkgMaps == [1..NPix -> BkgVals]
\* the pixel scales a solved WCS can have, in units of 1/3600 degree
Scales == { <<1, 1>>, <<1, 10>>, <<10, 1>> }

\* catalog rows: reference magnitudes per filter and the observed magnitude
Rows ==
    { [V_mag |-> 30, B_mag |-> 40, obs_mag |-> -170],
      [V_mag |-> 20, B_mag |-> 35, obs_mag |-> -170],
      [V_mag |-> 35, B_mag |-> 30, obs_mag |-> -160] }
CatalogsOf(n) == [1..n -> Rows]
NoCatalog == <<[V_mag |-> 0, B_mag |-> 0, obs_mag |-> 0]>>

----------------------------------------------------------------------------
(* The arithmetic of process_image. *)

\* catalog[filt_col] - catalog['obs_mag']
PhotOff(cat, col) == [i \in 1..Len(cat) |-> cat[i][col] - cat[i].obs_mag]

\* catalog[filt_col] <= 3.5, the cut with the bound included
CutInclusive(cat, col) == [i \in 1..Len(cat) |-> cat[i][col] <= MagCut]
\* catalog[filt_col] < 3.5
Cut(cat, col) == [i \in 1..Len(cat) |-> cat[i][col] < MagCut]

\* boolean-mask indexing: the elements of s where the mask is true, in order
RECURSIVE Masked(_, _)
Masked(s, mask) ==
    IF s = <<>> THEN <<>>
    ELSE (IF Head(mask) THEN <<Head(s)>> ELSE <<>>)
         \o Masked(Tail(s), Tail(mask))

\* zp = phot_off[cut].mean()
Zeropoint(cat, f) ==
    Mean(Masked(PhotOff(cat, ColName(f)), Cut(cat, ColName(f))))

\* pix_scales[0] * pix_scales[1] * 3600.**2, the scales being s/3600 degrees
PixArea(s) ==
    (s[1] * s[2] * ArcsecPerDeg * ArcsecPerDeg) \div (ArcsecPerDeg * ArcsecPerDeg)

\* zp + (-2.5 * log10(b / a)) for one pixel
SkyPix(z, b, a) ==
    IF IsNaN(z) \/ b < 0 THEN NaN
    ELSE IF b = 0 THEN PlusInf
    ELSE Fin(z.n - Pogson * Log10(b, a) * z.d, z.d)

\* zp + (-2.5 * np.log10(data / pix_area)), elementwise
SkyMag(z, data, a) == [i \in 1..Len(data) |-> SkyPix(z, data[i], a)]

\* the unit process_image gives the sky-brightness image
SkyUnit == "adu"

----------------------------------------------------------------------------
(* The state before process_image is called.                               *)

\* a file left by an earlier run at a derived path
StaleFile(path) ==
    IF Len(path) > 1 /\ SubSeq(path, Len(path) - 1, Len(path)) = SkySuffix
    THEN File(Image([i \in 1..NPix |-> Fin(150, 1)], "adu", "none", <<>>), "env")
    ELSE File(Image([i \in 1..NPix |-> 7], "adu", "none", <<>>), "env")

\* the raw frame on disk, its header with or without the FILTER key
RawFile(filter) == File(Image(RawData, "none", filter, <<>>), "env")

Alone == Cardinality(procs) = 1

\* what the collaborators can return; with two invocations in flight the
\* data is held to one representative, so that the interleavings are covered
BkgChoices == IF Alone THEN BkgMaps ELSE { [i \in 1..NPix |-> 100] }
ScaleChoices == IF Alone THEN Scales ELSE { <<1, 1>> }
LabelChoices == IF Alone THEN 0..MaxRows ELSE {1}
CatalogChoices(n) ==
    IF Alone THEN CatalogsOf(n)
    ELSE { [i \in 1..n |-> [V_mag |-> 30, B_mag |-> 40, obs_mag |-> -170]] }

InitWith(ps) ==
    /\ procs = ps
    /\ fitsfile \in [Procs -> InputPaths]
    /\ \A p \in Procs \ ps : fitsfile[p] = <<"x", "fits">>
    /\ \A p, q \in ps : p # q => fitsfile[p] # fitsfile[q]
    /\ \E hdr \in [ps -> Filters \cup {"none", "missing"}],
          stale \in (IF Cardinality(ps) = 1 THEN BOOLEAN ELSE {FALSE}) :
          fs = [path \in Paths |->
                  IF \E p \in ps : fitsfile[p] = path
                  THEN LET p == CHOOSE q \in ps : fitsfile[q] = path
                       IN  IF hdr[p] = "missing" THEN NoFile ELSE RawFile(hdr[p])
                  ELSE IF stale /\ \E p \in ps : path \in DerivedPaths(fitsfile[p])
                  THEN StaleFile(path)
                  ELSE NoFile]
    /\ fs0 = fs
    /\ pc = [p \in Procs |-> IF p \in ps THEN "read" ELSE "idle"]
    /\ im = [p \in Procs |-> NoImage]
    /\ bkg = [p \in Procs |-> <<>>]
    /\ bkg_image = [p \in Procs |-> NoImage]
    /\ diff_fp = [p \in Procs |-> NoPath]
    /\ solved_fp = [p \in Procs |-> NoPath]
    /\ solved = [p \in Procs |-> NoImage]
    /\ segm = [p \in Procs |-> [shape |-> 0, nlabels |-> 0]]
    /\ catalog = [p \in Procs |-> NoCatalog]
    /\ filt = [p \in Procs |-> "none"]
    /\ zp = [p \in Procs |-> NaN]
    /\ sky_mag = [p \in Procs |-> NoImage]
    /\ result = [p \in Procs |-> "none"]
    /\ trace = [p \in Procs |-> <<>>]
    /\ solver_read = [p \in Procs |-> "nobody"]
    /\ lost = {}

Init == InitWith({"A"})
InitConc == InitWith({"A", "B"})

----------------------------------------------------------------------------
(* The statements of process_image, one action each.                       *)

Call(op, path, ok) == [op |-> op, path |-> path, ok |-> ok]

\* the invocation records a call, and moves on or raises
Step(p, call, next) ==
    /\ trace' = [trace EXCEPT ![p] = Append(@, call)]
    /\ pc' = [pc EXCEPT ![p] = next]
    /\ UNCHANGED <<procs, fs0, fitsfile>>

\* an exception handler that removes what the invocation has written
RaiseCleanup(p, call, error) ==
    /\ Step(p, call, "failed")
    /\ result' = [result EXCEPT ![p] = error]
    /\ fs' = [path \in Paths |-> IF fs[path].by = p THEN NoFile ELSE fs[path]]
\* an exception leaves process_image: nothing catches it, nothing is undone
Raise(p, call, error) ==
    /\ Step(p, call, "failed")
    /\ result' = [result EXCEPT ![p] = error]
    /\ fs' = fs

\* image.write(path, overwrite=True)
WriteFile(p, path, image) ==
    /\ fs' = [fs EXCEPT ![path] = File(image, p)]
    /\ lost' = IF fs[path].by \in procs \ {p} THEN lost \cup {path} ELSE lost

\* im = CCDData.read(fitsfile, unit=u.adu)
Read(p) ==
    /\ pc[p] = "read"
    /\ IF Exists(fitsfile[p])
       THEN /\ im' = [im EXCEPT ![p] =
                        Image(fs[fitsfile[p]].data, "adu",
                              fs[fitsfile[p]].filter, fs[fitsfile[p]].wcs)]
            /\ Step(p, Call("read", fitsfile[p], TRUE), "background")
            /\ UNCHANGED <<fs, result>>
       ELSE /\ Raise(p, Call("read", fitsfile[p], FALSE), "IOError")
            /\ UNCHANGED im
    /\ UNCHANGED <<bkg, bkg_image, diff_fp, solved_fp, solved, segm,
                   catalog, filt, zp, sky_mag, solver_read, lost>>

\* make_background with its failure caught and a zero background used
MakeBackgroundSwallow(p) ==
    /\ pc[p] = "background"
    /\ \/ /\ \E b \in BkgChoices : bkg' = [bkg EXCEPT ![p] = b]
          /\ Step(p, Call("make_background", NoPath, TRUE), "write_bkg")
       \/ /\ bkg' = [bkg EXCEPT ![p] = [i \in 1..NPix |-> 0]]
          /\ Step(p, Call("make_background", NoPath, FALSE), "write_bkg")
    /\ UNCHANGED <<fs, result, im, bkg_image, diff_fp, solved_fp, solved, segm,
                   catalog, filt, zp, sky_mag, solver_read, lost>>
\* bkg = make_background(im)
MakeBackground(p) ==
    /\ pc[p] = "background"
    /\ \/ /\ \E b \in BkgChoices : bkg' = [bkg EXCEPT ![p] = b]
          /\ Step(p, Call("make_background", NoPath, TRUE), "write_bkg")
          /\ UNCHANGED <<fs, result>>
       \/ /\ Raise(p, Call("make_background", NoPath, FALSE), "BackgroundError")
          /\ UNCHANGED bkg
    /\ UNCHANGED <<im, bkg_image, diff_fp, solved_fp, solved, segm,
                   catalog, filt, zp, sky_mag, solver_read, lost>>

\* bkg_image = CCDData(bkg.background, unit=u.adu); bkg_image.write(...)
WriteBkg(p) ==
    /\ pc[p] = "write_bkg"
    /\ LET image == Image(bkg[p], "adu", "none", <<>>)
           path == WithSuffix(fitsfile[p], BkgSuffix)
       IN  /\ bkg_image' = [bkg_image EXCEPT ![p] = image]
           /\ WriteFile(p, path, image)
           /\ Step(p, Call("write", path, TRUE), "write_diff")
    /\ UNCHANGED <<im, bkg, diff_fp, solved_fp, solved, segm, catalog, filt,
                   zp, sky_mag, result, solver_read>>

\* diff = CCDData(im.data - bkg_image.data, unit=u.adu); diff.write(diff_fp, ...)
WriteDiff(p) ==
    /\ pc[p] = "write_diff"
    /\ LET diff == Image([i \in 1..Len(im[p].data) |->
                            im[p].data[i] - bkg_image[p].data[i]],
                         "adu", "none", <<>>)
           path == WithSuffix(fitsfile[p], SubtSuffix)
       IN  /\ diff_fp' = [diff_fp EXCEPT ![p] = path]
           /\ WriteFile(p, path, diff)
           /\ Step(p, Call("write", path, TRUE), "solve")
    /\ UNCHANGED <<im, bkg, bkg_image, solved_fp, solved, segm, catalog, filt,
                   zp, sky_mag, result, solver_read>>

\* solved_fp = solve_field(diff_fp)
SolveField(p) ==
    /\ pc[p] = "solve"
    /\ solver_read' = [solver_read EXCEPT ![p] = fs[diff_fp[p]].by]
    /\ \/ /\ Exists(diff_fp[p])
          /\ \E s \in ScaleChoices :
               fs' = [fs EXCEPT ![SolvedPath(diff_fp[p])] =
                        File(Image(fs[diff_fp[p]].data, fs[diff_fp[p]].unit,
                                   "none", s), "solver")]
          /\ solved_fp' = [solved_fp EXCEPT ![p] = SolvedPath(diff_fp[p])]
          /\ Step(p, Call("solve_field", diff_fp[p], TRUE), "read_solved")
          /\ UNCHANGED result
       \/ /\ Raise(p, Call("solve_field", diff_fp[p], FALSE), "SolveFailure")
          /\ UNCHANGED solved_fp
    /\ UNCHANGED <<im, bkg, bkg_image, diff_fp, solved, segm, catalog, filt,
                   zp, sky_mag, lost>>

\* solved = CCDData.read(solved_fp)
ReadSolved(p) ==
    /\ pc[p] = "read_solved"
    /\ solved' = [solved EXCEPT ![p] =
                    Image(fs[solved_fp[p]].data, fs[solved_fp[p]].unit,
                          fs[solved_fp[p]].filter, fs[solved_fp[p]].wcs)]
    /\ Step(p, Call("read", solved_fp[p], TRUE), "segment")
    /\ UNCHANGED <<fs, im, bkg, bkg_image, diff_fp, solved_fp, segm, catalog,
                   filt, zp, sky_mag, result, solver_read, lost>>

\* segm = make_segmentation_image(solved)
Segment(p) ==
    /\ pc[p] = "segment"
    /\ \E n \in LabelChoices :
         segm' = [segm EXCEPT ![p] =
                    [shape |-> Len(solved[p].data), nlabels |-> n]]
    /\ Step(p, Call("make_segmentation_image", NoPath, TRUE), "catalog")
    /\ UNCHANGED <<fs, im, bkg, bkg_image, diff_fp, solved_fp, solved, catalog,
                   filt, zp, sky_mag, result, solver_read, lost>>

\* catalog = make_catalog(solved, segm, solved.wcs)
MakeCatalog(p) ==
    /\ pc[p] = "catalog"
    /\ \E c \in CatalogChoices(segm[p].nlabels) :
         catalog' = [catalog EXCEPT ![p] = c]
    /\ Step(p, Call("make_catalog", NoPath, TRUE), "filter")
    /\ UNCHANGED <<fs, im, bkg, bkg_image, diff_fp, solved_fp, solved, segm,
                   filt, zp, sky_mag, result, solver_read, lost>>

\* im.header.get('FILTER', 'V'): a default in place of the KeyError
ReadFilterDefault(p) ==
    /\ pc[p] = "filter"
    /\ filt' = [filt EXCEPT ![p] =
                  IF im[p].filter = "none" THEN "V" ELSE im[p].filter]
    /\ Step(p, Call("header", NoPath, TRUE), "zeropoint")
    /\ UNCHANGED <<fs, im, bkg, bkg_image, diff_fp, solved_fp, solved, segm,
                   catalog, zp, sky_mag, result, solver_read, lost>>
\* filt = im.header['FILTER']; filt_col = f'{filt}_mag'
ReadFilter(p) ==
    /\ pc[p] = "filter"
    /\ IF im[p].filter # "none"
       THEN /\ filt' = [filt EXCEPT ![p] = im[p].filter]
            /\ Step(p, Call("header", NoPath, TRUE), "zeropoint")
            /\ UNCHANGED <<fs, result>>
       ELSE /\ Raise(p, Call("header", NoPath, FALSE), "KeyError")
            /\ UNCHANGED filt
    /\ UNCHANGED <<im, bkg, bkg_image, diff_fp, solved_fp, solved, segm,
                   catalog, zp, sky_mag, solver_read, lost>>

\* phot_off = ...; cut = ...; zp = phot_off[cut].mean()
ComputeZeropoint(p) ==
    /\ pc[p] = "zeropoint"
    /\ zp' = [zp EXCEPT ![p] = Zeropoint(catalog[p], filt[p])]
    /\ Step(p, Call("zeropoint", NoPath, TRUE), "sky_mag")
    /\ UNCHANGED <<fs, im, bkg, bkg_image, diff_fp, solved_fp, solved, segm,
                   catalog, filt, sky_mag, result, solver_read, lost>>

\* the raw frame in place of the background map
SkyInputRaw(p) == im[p].data
\* the array process_image converts to sky brightness
SkyInput(p) == bkg_image[p].data

\* pix_scales = ...; pix_area = ...; sky_mag = CCDData(zp + ..., unit=u.adu)
ComputeSkyMag(p) ==
    /\ pc[p] = "sky_mag"
    /\ sky_mag' = [sky_mag EXCEPT ![p] =
                     Image(SkyMag(zp[p], SkyInput(p), PixArea(solved[p].wcs)),
                           SkyUnit, "none", <<>>)]
    /\ Step(p, Call("sky_mag", NoPath, TRUE), "write_sky")
    /\ UNCHANGED <<fs, im, bkg, bkg_image, diff_fp, solved_fp, solved, segm,
                   catalog, filt, zp, result, solver_read, lost>>

\* sky_mag.write(fitsfile.with_suffix(".sky.fits"), overwrite=True)
WriteSky(p) ==
    /\ pc[p] = "write_sky"
    /\ LET path == WithSuffix(fitsfile[p], SkySuffix)
       IN  /\ WriteFile(p, path, sky_mag[p])
           /\ Step(p, Call("write", path, TRUE), "return")
    /\ UNCHANGED <<im, bkg, bkg_image, diff_fp, solved_fp, solved, segm,
                   catalog, filt, zp, sky_mag, result, solver_read>>

\* a return that does not wait for the sky-brightness file
ReturnEarly(p) ==
    /\ pc[p] \in {"write_sky", "return"}
    /\ result' = [result EXCEPT ![p] = "returned"]
    /\ Step(p, Call("return", NoPath, TRUE), "done")
    /\ UNCHANGED <<fs, im, bkg, bkg_image, diff_fp, solved_fp, solved, segm,
                   catalog, filt, zp, sky_mag, solver_read, lost>>
\* return catalog
Return(p) ==
    /\ pc[p] = "return"
    /\ result' = [result EXCEPT ![p] = "returned"]
    /\ Step(p, Call("return", NoPath, TRUE), "done")
    /\ UNCHANGED <<fs, im, bkg, bkg_image, diff_fp, solved_fp, solved, segm,
                   catalog, filt, zp, sky_mag, solver_read, lost>>

Next ==
    \/ \E p \in procs : Read(p)
    \/ \E p \in procs : MakeBackground(p)
    \/ \E p \in procs : WriteBkg(p)
    \/ \E p \in procs : WriteDiff(p)
    \/ \E p \in procs : SolveField(p)
    \/ \E p \in procs : ReadSolved(p)
    \/ \E p \in procs : Segment(p)
    \/ \E p \in procs : MakeCatalog(p)
    \/ \E p \in procs : ReadFilter(p)
    \/ \E p \in procs : ComputeZeropoint(p)
    \/ \E p \in procs : ComputeSkyMag(p)
    \/ \E p \in procs : WriteSky(p)
    \/ \E p \in procs : Return(p)

\* one invocation of process_image
Spec == Init /\ [][Next]_vars

\* two concurrent invocations on distinct input paths
SpecConc == InitConc /\ [][Next]_vars

----------------------------------------------------------------------------
(* Vocabulary of the properties.                                           *)

\* the input path without its final suffix
Basename(path) == IF Len(path) > 1 THEN SubSeq(path, 1, Len(path) - 1) ELSE path
BkgName(p) == Basename(fitsfile[p]) \o <<"bkg", "fits">>
SubtName(p) == Basename(fitsfile[p]) \o <<"subt", "fits">>
SkyName(p) == Basename(fitsfile[p]) \o <<"sky", "fits">>

Did(p, op) == \E i \in 1..Len(trace[p]) : trace[p][i].op = op
Count(p, op) == Cardinality({ i \in 1..Len(trace[p]) : trace[p][i].op = op })
Written(p) == { trace[p][i].path : i \in { j \in 1..Len(trace[p]) : trace[p][j].op = "write" } }
Failed(p) == result[p] \notin {"none", "returned"}

\* the calls of a complete invocation, in the order of the claim
Order(p) ==
    << <<"read", fitsfile[p]>>, <<"make_background", NoPath>>,
       <<"write", BkgName(p)>>, <<"write", SubtName(p)>>,
       <<"solve_field", SubtName(p)>>, <<"read", solved_fp[p]>>,
       <<"make_segmentation_image", NoPath>>, <<"make_catalog", NoPath>>,
       <<"header", NoPath>>, <<"zeropoint", NoPath>>,
       <<"write", SkyName(p)>>, <<"return", NoPath>> >>

IsListed(call) == call.op # "sky_mag"
Listed(p) == SelectSeq(trace[p], IsListed)

\* C1: the calls of an invocation are a prefix of the fixed order, each made
\* only after the one before it succeeded; the solver is invoked only on the
\* difference file this invocation has put on disk, and the catalog is
\* returned only after this invocation has written the sky-brightness file.
C1_FixedOrder ==
    \A p \in procs :
        LET t == Listed(p)
        IN  /\ Len(t) <= Len(Order(p))
            /\ \A i \in 1..Len(t) :
                 /\ t[i].op = Order(p)[i][1]
                 /\ (t[i].op # "read" \/ i = 1) => t[i].path = Order(p)[i][2]
                 /\ i < Len(t) => t[i].ok
            /\ Did(p, "solve_field") =>
                 /\ fs[SubtName(p)].by = p
                 /\ solver_read[p] = p
            /\ result[p] = "returned" =>
                 /\ fs[SkyName(p)].by = p
                 /\ fs[SkyName(p)].data = sky_mag[p].data
                 /\ Len(t) = Len(Order(p))

C1_Witness == result["A"] = "returned" /\ fs0[SkyName("A")].by = "env"

\* C2: when the input's header has no FILTER key and everything before the
\* header lookup succeeded, the invocation fails with the missing-key error,
\* the zeropoint is never computed, the background and difference files of
\* this invocation are on disk, the sky-brightness file is untouched and no
\* catalog is returned.
C2_MissingFilter ==
    \A p \in procs :
        (fs0[fitsfile[p]].filter = "none" /\ Did(p, "header")) =>
            /\ result[p] = "KeyError"
            /\ pc[p] = "failed"
            /\ ~Did(p, "zeropoint")
            /\ ~Did(p, "return")
            /\ fs[BkgName(p)].by = p
            /\ fs[SubtName(p)].by = p
            /\ fs[SkyName(p)] = fs0[SkyName(p)]

C2_Witness ==
    /\ result["A"] = "KeyError"
    /\ Did("A", "make_catalog")
    /\ fs0[fitsfile["A"]].by = "env"

Collaborators ==
    {"read", "make_background", "solve_field", "make_segmentation_image",
     "make_catalog"}

\* a failed call is the last call of its invocation, which has raised
FailureEnds(p) ==
    /\ \A i \in 1..Len(trace[p]) :
         ~trace[p][i].ok =>
            /\ i = Len(trace[p])
            /\ Failed(p)
            /\ pc[p] = "failed"
    /\ Failed(p) =>
         /\ trace[p] # <<>>
         /\ ~trace[p][Len(trace[p])].ok
         /\ ~Did(p, "return")

\* C3 as stated: every collaborator, the file read among them, is invoked at
\* most once in an invocation, and a failure ends the invocation at once.
C3_AtMostOnce ==
    \A p \in procs :
        /\ \A op \in Collaborators : Count(p, op) <= 1
        /\ FailureEnds(p)

\* C3 as amended: the background estimator, the solver, the segmenter and
\* the cataloger are invoked at most once; the file read is invoked at most
\* once per file (the input, then the solved file), never twice on one path;
\* and a failure ends the invocation at once.
C3_NoRetry ==
    \A p \in procs :
        /\ \A op \in Collaborators \ {"read"} : Count(p, op) <= 1
        /\ Count(p, "read") <= 2
        /\ \A i, j \in 1..Len(trace[p]) :
             (i < j /\ trace[p][i].op = "read" /\ trace[p][j].op = "read")
                => trace[p][i].path # trace[p][j].path
        /\ FailureEnds(p)

C3_Witness ==
    /\ result["A"] = "SolveFailure"
    /\ Count("A", "solve_field") = 1
    /\ Count("A", "read") = 1

\* C4: nothing is cleaned up on failure.  No file that was on disk is ever
\* missing; every file an invocation wrote holds what that invocation
\* wrote; a failed read or background estimation leaves the file system as
\* it was; a solver failure leaves this invocation's background and
\* difference files and the sky-brightness path as it was before.
C4_NoCleanup ==
    \A p \in procs :
        /\ \A path \in Paths : fs0[path].by # "nobody" => Exists(path)
        /\ \A path \in Written(p) : fs[path].by = p
        /\ Did(p, "solve_field") =>
             /\ fs[BkgName(p)].data = bkg[p]
             /\ fs[SubtName(p)].data =
                  [i \in 1..NPix |-> im[p].data[i] - bkg[p][i]]
        /\ result[p] \in {"IOError", "BackgroundError"} => fs = fs0
        /\ result[p] = "SolveFailure" =>
             /\ Written(p) = {BkgName(p), SubtName(p)}
             /\ fs[BkgName(p)].by = p
             /\ fs[SubtName(p)].by = p
             /\ fs[SkyName(p)] = fs0[SkyName(p)]
             /\ \A path \in Paths \ Written(p) : fs[path] = fs0[path]

C4_Witness ==
    /\ result["A"] = "SolveFailure"
    /\ fs0[SkyName("A")].by = "env"
    /\ fs0[BkgName("A")].by = "env"

\* C5 as stated: two invocations on different input paths never overwrite
\* each other's files, and each solver reads the difference file of its own
\* invocation.
C5_DistinctInputsSafe ==
    (\A p, q \in procs : p # q => fitsfile[p] # fitsfile[q]) =>
        /\ lost = {}
        /\ \A p \in procs : Did(p, "solve_field") => solver_read[p] = p

\* C6: a successful invocation writes exactly <basename>.bkg.fits,
\* <basename>.subt.fits and <basename>.sky.fits, over whatever was there;
\* the input file is not written; apart from the solver's own output no
\* other file changes, so the catalog is not persisted.
C6_ExactlyThreeFiles ==
    \A p \in procs :
        result[p] = "returned" =>
            /\ Written(p) = {BkgName(p), SubtName(p), SkyName(p)}
            /\ Count(p, "write") = 3
            /\ \A path \in Written(p) : fs[path].by = p
            /\ fitsfile[p] \notin Written(p)
            /\ \A path \in Paths \ (Written(p) \cup {solved_fp[p]}) :
                 fs[path] = fs0[path]

C6_Witness ==
    /\ result["A"] = "returned"
    /\ fitsfile["A"] = <<"x", "bkg", "fits">>
    /\ \A path \in {BkgName("A"), SubtName("A"), SkyName("A")} :
         fs0[path].by = "env"

\* C7 as stated: every image the pipeline writes has unit ADU, except the
\* sky-brightness image, which is written with unit mag/arcsec^2.
C7_SkyUnit ==
    \A p \in procs :
        \A path \in Written(p) :
            fs[path].by = p =>
                fs[path].unit = (IF path = SkyName(p) THEN "mag/arcsec2" ELSE "adu")

\* the rows of the catalog of p that pass the brightness cut
Selected(p) ==
    { i \in 1..Len(catalog[p]) : catalog[p][i][ColName(filt[p])] < 35 }
Offset(p, i) == catalog[p][i][ColName(filt[p])] - catalog[p][i].obs_mag

RECURSIVE SumOver(_, _)
SumOver(p, S) ==
    IF S = {} THEN 0
    ELSE LET i == CHOOSE j \in S : TRUE
         IN  Offset(p, i) + SumOver(p, S \ {i})

\* C8: when no row of the catalog has a reference magnitude below 3.5 the
\* zeropoint is not-a-number, not zero, every pixel of the sky-brightness
\* image (in memory and on disk) is not-a-number, and a zeropoint that is
\* not-a-number arises in no other way.
C8_EmptySelectionUndefined ==
    \A p \in procs :
        Did(p, "zeropoint") =>
            /\ Selected(p) = {} =>
                 /\ IsNaN(zp[p])
                 /\ zp[p] # Fin(0, 1)
                 /\ Did(p, "sky_mag") =>
                      /\ Len(sky_mag[p].data) = NPix
                      /\ \A i \in 1..NPix : IsNaN(sky_mag[p].data[i])
                 /\ result[p] = "returned" =>
                      \A i \in 1..NPix : IsNaN(fs[SkyName(p)].data[i])
            /\ Selected(p) # {} => IsFin(zp[p])

C8_Witness ==
    /\ result["A"] = "returned"
    /\ Len(catalog["A"]) = MaxRows
    /\ Selected("A") = {}

\* C9: the zeropoint is the arithmetic mean of (reference magnitude -
\* obs_mag) over exactly the rows whose reference magnitude is strictly
\* below 3.5, and it is the same for every permutation of the rows.
C9_ZeropointMean ==
    \A p \in procs :
        Did(p, "zeropoint") =>
            /\ Selected(p) # {} =>
                 NumEq(zp[p], Fin(SumOver(p, Selected(p)), Cardinality(Selected(p))))
            /\ Selected(p) = {} => ~IsFin(zp[p])
            /\ \A perm \in Permutations(1..Len(catalog[p])) :
                 LET z == Zeropoint([i \in 1..Len(catalog[p]) |-> catalog[p][perm[i]]],
                                    filt[p])
                 IN  NumEq(z, zp[p]) \/ (IsNaN(z) /\ IsNaN(zp[p]))

C9_Witness ==
    /\ Did("A", "zeropoint")
    /\ Len(catalog["A"]) = 2
    /\ catalog["A"][1][ColName(filt["A"])] = 35
    /\ catalog["A"][2][ColName(filt["A"])] < 35
    /\ Offset("A", 1) # Offset("A", 2)

RECURSIVE Pow10(_)
Pow10(k) == IF k = 0 THEN 1 ELSE 10 * Pow10(k - 1)

\* s = z - 2.5 * log10(b / a), stated without the logarithm:
\* z - s = 2.5 * k for the integer k with b / a = 10^k
IsSkyBrightness(s, z, b, a) ==
    /\ IsFin(s)
    /\ \E k \in -4..4 :
         /\ (z.n * s.d - s.n * z.d) = 25 * k * z.d * s.d
         /\ IF k >= 0 THEN b = a * Pow10(k) ELSE b * Pow10(-k) = a

\* C10: the sky-brightness image has the shape of the background map, and
\* at every pixel with background b > 0 its value is z - 2.5*log10(b/a) for
\* the zeropoint z and the pixel area a = scale_x * scale_y * 3600^2 (the
\* scales being held in units of 1/3600 degree, a is their product); a flat
\* background of 100 with zeropoint 20 and area 1 gives 15.0 everywhere.
C10_SkyBrightness ==
    \A p \in procs :
        Did(p, "sky_mag") =>
            LET b == bkg[p]
                a == solved[p].wcs[1] * solved[p].wcs[2]
                s == sky_mag[p].data
            IN  /\ Len(s) = Len(b)
                /\ \A i \in 1..Len(b) :
                     (b[i] > 0 /\ IsFin(zp[p])) => IsSkyBrightness(s[i], zp[p], b[i], a)
                /\ ((\A i \in 1..Len(b) : b[i] = 100) /\ NumEq(zp[p], Fin(200, 1)) /\ a = 1)
                     => \A i \in 1..Len(b) : NumEq(s[i], Fin(150, 1))
                /\ result[p] = "returned" => fs[SkyName(p)].data = s

C10_Witness ==
    /\ result["A"] = "returned"
    /\ \A i \in 1..NPix : bkg["A"][i] = 100
    /\ NumEq(zp["A"], Fin(200, 1))
    /\ solved["A"].wcs = <<1, 1>>
    /\ \A i \in 1..NPix : NumEq(sky_mag["A"].data[i], Fin(150, 1))

====
